---- MODULE Spec2Model ----
(***************************************************************************)
(* Lifecycle of the editor engine owned by TldrawEditor                    *)
(* (packages/editor/src/lib/TldrawEditor.tsx).                             *)
(*                                                                         *)
(* The model follows one TldrawEditor through its renders.  A render of    *)
(* the store gate (TldrawEditorWithLoadingStore) and of the controller     *)
(* (TldrawEditorWithReadyStore) is one action; it leaves in `todo` the     *)
(* cleanups and layout effects of its commit, in the order React runs      *)
(* them, and each cleanup or effect is one action of its own.              *)
(*                                                                         *)
(* Order of a commit: cleanups first (a deleted subtree parent before      *)
(* child, an updated subtree child before parent), then the layout effects *)
(* child before parent and, within one component, in declaration order.    *)
(* A state update made by a layout effect (setEditor) is rendered          *)
(* synchronously right after the commit (Rerender).                        *)
(***************************************************************************)
EXTENDS Integers, Sequences, FiniteSets, TLC

\* Number of changes of its inputs (renders with other props, changes of the
\* colour scheme preference) that a behaviour may contain.
MaxRenders == 2

\* Engine instances are numbered in order of construction; a render
\* constructs at most one.
InstanceIds == 1..(MaxRenders + 1)

ReadyStatuses == {"not-synced", "synced-local", "synced-remote"}
Statuses == {"loading", "error"} \cup ReadyStatuses

\* The effect dependencies whose change recreates the editor.
IdentityFields ==
    {"store", "container", "shapeUtils", "bindingUtils", "tools", "user",
     "options", "licenseKey"}

\* The props read only when an editor is constructed.
OneShotFields == {"autoFocus", "inferDarkMode", "initialState"}

\* The props kept in editorOptionsRef.
RefFields == OneShotFields \cup {"cameraOptions"}

\* The props that only reach the Layout subtree.
ViewFields == {"onMount", "children"}

PropFields == IdentityFields \cup RefFields \cup ViewFields

\* "none" stands for no error; an undefined prop is written 0.
NoError == "none"
StoreErrors == {"E1", "E2"}
CrashErrors == {"X1"}
ConstructionErrors == {"K1"}

VARIABLES
    props,            \* the props of the latest render
    phase,            \* "init", "mounted", "failed", "unmounted"
    gate,             \* what the store gate rendered last
    ready,            \* TldrawEditorWithReadyStore is mounted
    editor,           \* the editor state of useRefState (0 is null)
    renderedEditor,   \* the editor value the latest render has seen
    owned,            \* the editor the construction effect must dispose
    editorOptionsRef, \* editorOptionsRef.current
    crashingError,    \* the useSyncExternalStore snapshot of the latest render
    branch,           \* what TldrawEditorWithReadyStore rendered last
    innerError,       \* the error held by the inner error boundary
    outerError,       \* the error held by the outer error boundary
    layoutFor,        \* the editor the mounted useOnMount effect ran for
    teardown,         \* which teardown callbacks that effect collected
    inst,             \* the engine instances
    tldrawReady,      \* window.tldrawReady
    todo,             \* the cleanups and effects of the commit still to run
    trace,            \* the engine calls since the latest external event
    lastChanged,      \* the props the latest render has changed
    wasLive,          \* the live editor when the latest render began
    identityChanges,  \* renders of the mounted controller that changed the identity key
    renders,          \* number of changes of the inputs so far
    given,            \* the props the caller passed to the latest render
    colorScheme,      \* user.userPreferences.get().colorScheme
    themeClass        \* the theme class on the container

vars == <<props, phase, gate, ready, editor, renderedEditor, owned,
          editorOptionsRef, crashingError, branch, innerError, outerError,
          layoutFor, teardown, inst, tldrawReady, todo, trace, lastChanged,
          wasLive, identityChanges, renders, given,
                   colorScheme, themeClass>>

----------------------------------------------------------------------------
\* Helpers

IfStep(cond, step) == IF cond THEN <<step>> ELSE <<>>

Event(kind, id, arg) == <<kind, id, arg>>

RECURSIVE Filter(_, _)
Filter(s, K) ==
    IF s = <<>> THEN <<>>
    ELSE IF Head(s)[1] \in K THEN <<Head(s)>> \o Filter(Tail(s), K)
    ELSE Filter(Tail(s), K)

Positions(s, kind, id) == {i \in 1..Len(s) : s[i][1] = kind /\ s[i][2] = id}

RefOf(p) == [f \in RefFields |-> p[f]]

IdentityKey(p) == [f \in IdentityFields |-> p[f]]

NoInstance ==
    [status |-> "none", args |-> <<>>, cameraOptions |-> 0,
     crashingError |-> NoError, disposes |-> 0, mounts |-> 0, teardowns |-> 0]

NoTeardown == [store |-> FALSE, callback |-> FALSE]

----------------------------------------------------------------------------
\* The props a parent may pass

AllFields == PropFields \cup {"status", "error"}

WellFormed(p) == (p.status = "error") <=> (p.error # NoError)

\* The props a caller may leave out and TldrawEditor fills in.
DefaultedFields == {"shapeUtils", "bindingUtils", "tools", "user"}

\* const EMPTY_..._ARRAY = [] as const: three arrays made once, unlike
\* every reference a caller passes (1 or 2).
EMPTY_SHAPE_UTILS_ARRAY == 3
EMPTY_BINDING_UTILS_ARRAY == 4
EMPTY_TOOLS_ARRAY == 5

\* createTLUser(): the user object made in render n, unlike every other.
CreateTLUser(n) == 10 + n

\* Mutant: the default user is made in every render.
UserMemo_NoMemo(dep, value, user, n, isMount) ==
    IF user = 0 THEN CreateTLUser(n) ELSE user

\* useMemo(() => _user ?? createTLUser(), [_user]): dep and value are the
\* dependency and the result of the previous render.
UserMemo(dep, value, user, n, isMount) ==
    IF ~isMount /\ user = dep THEN value
    ELSE IF user = 0 THEN CreateTLUser(n) ELSE user

\* The props TldrawEditor passes down in render n when the caller gives g,
\* after the caller's given and the props passed down in the render before.
WithDefaults(g, given0, props0, n, isMount) ==
    [g EXCEPT !.shapeUtils = IF @ = 0 THEN EMPTY_SHAPE_UTILS_ARRAY ELSE @,
              !.bindingUtils = IF @ = 0 THEN EMPTY_BINDING_UTILS_ARRAY ELSE @,
              !.tools = IF @ = 0 THEN EMPTY_TOOLS_ARRAY ELSE @,
              !.user = UserMemo(given0.user, props0.user, @, n, isMount)]

\* What the caller passes to the first render: shapeUtils, bindingUtils,
\* tools and user are left out, every other reference prop has its first
\* value (1), cameraOptions is given or undefined, and the store is
\* loading, failed or not synced.
InitialProps ==
    {p \in {[f \in AllFields |->
        CASE f = "status" -> st
          [] f = "error" -> er
          [] f = "cameraOptions" -> cam
          [] f \in DefaultedFields -> 0
          [] OTHER -> 1] :
        st \in {"loading", "error", "not-synced"},
        er \in StoreErrors \cup {NoError}, cam \in {0, 1}} : WellFormed(p)}

\* A render changes nothing, one prop, or the store together with one
\* of autoFocus, cameraOptions and onMount.
ChangeSets ==
    {{}} \cup {{f} : f \in PropFields}
         \cup {{"store", o} : o \in {"autoFocus", "cameraOptions", "onMount"}}

OptionalFields == {"cameraOptions", "onMount"}

FieldChanges(p) ==
    {q \in {[f \in AllFields |->
                IF f \notin ch THEN p[f]
                ELSE IF f \in OptionalFields THEN x
                ELSE IF f \in DefaultedFields THEN 1 - p[f]
                ELSE 3 - p[f]] :
                ch \in ChangeSets, x \in {0, 1, 2}} :
        LET d == {f \in AllFields : q[f] # p[f]} IN d \in ChangeSets}

\* The status of a store only moves forward: it never returns to loading.
StatusChanges(p) ==
    IF p.status = "error" THEN {}
    ELSE {[p EXCEPT !.status = st, !.error = NoError] :
              st \in ReadyStatuses \ {p.status}}
         \cup {[p EXCEPT !.status = "error", !.error = er] : er \in StoreErrors}

NextProps(p) == FieldChanges(p) \cup StatusChanges(p)

Changed(p, q) == {f \in AllFields : p[f] # q[f]}

----------------------------------------------------------------------------
\* TldrawEditorWithLoadingStore: the store gate

\* Mutant: the gate throws a new error in place of the store's.
GateThrows_Wrapped(p) == "wrapped"

\* throw store.error
GateThrows(p) == p.error

\* Mutant: a store that is not synced is treated as still loading.
StoreStatusGate_NotSyncedLoading(p, LoadingScreen) ==
    CASE p.status = "error" -> "throw"
      [] p.status \in {"loading", "not-synced"} ->
            IF LoadingScreen THEN "placeholder" ELSE "nothing"
      [] OTHER -> "ready"

\* switch (store.status); LoadingScreen is the slot of the components
\* registry, only looked at while the store is loading.
StoreStatusGate(p, LoadingScreen) ==
    CASE p.status = "error" -> "throw"
      [] p.status = "loading" ->
            IF LoadingScreen THEN "placeholder" ELSE "nothing"
      [] OTHER -> "ready"

----------------------------------------------------------------------------
\* TldrawEditorWithReadyStore: the render

\* () => editor?.getCrashingError() ?? null
GetSnapshot(e) == IF e = 0 THEN NoError ELSE inst[e].crashingError

\* Mutant: the render does not look at the crash.
RenderBranch_IgnoresCrash(e, snap) == IF e = 0 THEN "null" ELSE "layout"

\* if (!editor) return null; crashingError ? <Crash/> : <Layout/>
RenderBranch(e, snap) ==
    IF e = 0 THEN "null" ELSE IF snap # NoError THEN "crash" ELSE "layout"

\* The inner error boundary keeps the first error thrown below it.
InnerBoundary(held, b, snap) ==
    IF b = "null" THEN held
    ELSE IF held # NoError THEN held
    ELSE IF b = "crash" THEN snap ELSE NoError

\* Mutant: licenseKey is missing from the dependencies.
IdentityChanged_NoLicenseKey(p, q) ==
    \E f \in IdentityFields \ {"licenseKey"} : p[f] # q[f]

\* Mutant: autoFocus is one of the dependencies.
IdentityChanged_WithAutoFocus(p, q) ==
    \E f \in IdentityFields \cup {"autoFocus"} : p[f] # q[f]

\* [bindingUtils, container, options, shapeUtils, store, tools, user,
\* setEditor, licenseKey]; setEditor never changes.
IdentityChanged(p, q) == IdentityKey(p) # IdentityKey(q)

\* Mutant: the effect's dependencies leave out autoFocus.
RefChanged_NoAutoFocus(p, q) ==
    \E f \in RefFields \ {"autoFocus"} : p[f] # q[f]

\* [autoFocus, inferDarkMode, initialState, cameraOptions]
RefChanged(p, q) == RefOf(p) # RefOf(q)

\* Mutant: the effect depends on the onMount prop itself.
OnMountDepsChanged_WithOnMount(p, q, e) == layoutFor # e \/ p.onMount # q.onMount

\* [editor, onMountEvent]: the dependencies of useOnMount's effect; the
\* callback made by useEvent never changes.
OnMountDepsChanged(p, q, e) == layoutFor # e

\* [editor, cameraOptions]
CameraDepsChanged(p, q, e) ==
    e # renderedEditor \/ q.cameraOptions # p.cameraOptions

\* Mutant: the construction effect returns no cleanup.
EditorCleanup_None(identity) == <<>>

\* The cleanup the construction effect has returned, run when its
\* dependencies change.
EditorCleanup(identity) == IfStep(identity /\ owned # 0, "DisposeEditor")

\* Mutant: a crashed controller constructs nothing on an identity change.
CommitPlan_CrashTerminal(p, q, e, isMount) ==
    LET snap == GetSnapshot(e)
        b == RenderBranch(e, snap)
        held == InnerBoundary(innerError, b, snap)
        layoutRendered == b = "layout" /\ held = NoError
        identity == (isMount \/ IdentityChanged(p, q)) /\ snap = NoError
    IN  IfStep(layoutFor # 0 /\ (~layoutRendered \/ OnMountDepsChanged(p, q, e)),
               "LayoutCleanup")
        \o EditorCleanup(identity)
        \o IfStep(layoutRendered /\ (layoutFor = 0 \/ OnMountDepsChanged(p, q, e)),
                  "OnMountEvent")
        \o IfStep(isMount \/ RefChanged(p, q), "UpdateEditorOptionsRef")
        \o IfStep(identity, "ConstructEditor")
        \o IfStep(isMount \/ CameraDepsChanged(p, q, e), "SetCameraOptionsEffect")

\* Mutant: the switch to the crash path leaves the effect of Layout in place.
CommitPlan_KeepsLayoutEffect(p, q, e, isMount) ==
    LET snap == GetSnapshot(e)
        b == RenderBranch(e, snap)
        held == InnerBoundary(innerError, b, snap)
        layoutRendered == b = "layout" /\ held = NoError
        identity == isMount \/ IdentityChanged(p, q)
    IN  IfStep(layoutFor # 0 /\ layoutRendered /\ OnMountDepsChanged(p, q, e),
               "LayoutCleanup")
        \o EditorCleanup(identity)
        \o IfStep(layoutRendered /\ (layoutFor = 0 \/ OnMountDepsChanged(p, q, e)),
                  "OnMountEvent")
        \o IfStep(isMount \/ RefChanged(p, q), "UpdateEditorOptionsRef")
        \o IfStep(identity, "ConstructEditor")
        \o IfStep(isMount \/ CameraDepsChanged(p, q, e), "SetCameraOptionsEffect")

\* The cleanups and layout effects of the commit of a render of the
\* controller with props q, previous props p and editor state e.
CommitPlan(p, q, e, isMount) ==
    LET snap == GetSnapshot(e)
        b == RenderBranch(e, snap)
        held == InnerBoundary(innerError, b, snap)
        layoutRendered == b = "layout" /\ held = NoError
        identity == isMount \/ IdentityChanged(p, q)
    IN  IfStep(layoutFor # 0 /\ (~layoutRendered \/ OnMountDepsChanged(p, q, e)),
               "LayoutCleanup")
        \o EditorCleanup(identity)
        \o IfStep(layoutRendered /\ (layoutFor = 0 \/ OnMountDepsChanged(p, q, e)),
                  "OnMountEvent")
        \o IfStep(isMount \/ RefChanged(p, q), "UpdateEditorOptionsRef")
        \o IfStep(identity, "ConstructEditor")
        \o IfStep(isMount \/ CameraDepsChanged(p, q, e), "SetCameraOptionsEffect")

\* Mutant: the deleted controller leaves its instance alone.
DeletionPlan_NoDispose ==
    IfStep(layoutFor # 0, "LayoutCleanup")

\* The cleanups of a deleted subtree: the controller's before Layout's.
DeletionPlan ==
    IfStep(ready /\ owned # 0, "DisposeEditor")
    \o IfStep(layoutFor # 0, "LayoutCleanup")

RenderReadyStore(q, after) ==
    LET snap == GetSnapshot(editor)
        b == RenderBranch(editor, snap)
    IN  /\ ready' = TRUE
        /\ renderedEditor' = editor
        /\ crashingError' = snap
        /\ branch' = b
        /\ innerError' = InnerBoundary(innerError, b, snap)
        /\ editorOptionsRef' = IF ready THEN editorOptionsRef ELSE RefOf(q)
        /\ todo' = CommitPlan(props, q, editor, ~ready) \o after

\* A state update that the latest render has not seen yet.
Pending ==
    ready /\ (editor # renderedEditor \/ GetSnapshot(renderedEditor) # crashingError)

LiveEditor ==
    IF ready /\ editor # 0 /\ inst[editor].status = "live" THEN editor ELSE 0

\* Mutant: the theme effect runs when the store first becomes ready.
GateEffects_WhenFirstReady(p, q, isMount) ==
    IfStep(q.status \in ReadyStatuses /\ (isMount \/ p.status = "loading"),
           "ThemeEffect")

\* useLayoutEffect(() => { ... }, [container, user]) of the gate: it runs
\* in the commit that mounts the gate and when container or user changes.
GateEffects(p, q, isMount) ==
    IfStep(isMount \/ p.container # q.container \/ p.user # q.user,
           "ThemeEffect")

\* One render of the gate and of what it lets through.  The gate's effect
\* comes after the effects of its subtree; another container comes with
\* the class TldrawEditor renders it with.
RenderGate(q, LoadingScreen) ==
    LET out == StoreStatusGate(q, LoadingScreen) IN
    /\ props' = q
    /\ themeClass' = IF phase # "init" /\ q.container # props.container
                     THEN "light" ELSE themeClass
    /\ gate' = [out |-> out, LoadingScreen |-> LoadingScreen]
    /\ trace' = <<>>
    /\ lastChanged' = IF phase = "init" THEN {} ELSE Changed(props, q)
    /\ wasLive' = LiveEditor
    /\ identityChanges' =
          IF ready /\ out = "ready" /\ Changed(props, q) \cap IdentityFields # {}
          THEN identityChanges + 1 ELSE identityChanges
    /\ CASE out = "throw" ->
              /\ phase' = "failed"
              /\ outerError' = GateThrows(q)
              /\ ready' = FALSE
              /\ todo' = DeletionPlan
              /\ UNCHANGED <<editor, renderedEditor, owned, editorOptionsRef,
                             crashingError, branch, innerError, layoutFor,
                             teardown, inst, tldrawReady>>
         [] out = "ready" ->
              /\ phase' = "mounted"
              /\ RenderReadyStore(q, GateEffects(props, q, phase = "init"))
              /\ UNCHANGED <<editor, owned, outerError, layoutFor, teardown,
                             inst, tldrawReady>>
         [] OTHER ->
              /\ phase' = "mounted"
              /\ todo' = GateEffects(props, q, phase = "init")
              /\ UNCHANGED <<ready, editor, renderedEditor, owned,
                             editorOptionsRef, crashingError, branch,
                             innerError, outerError, layoutFor, teardown,
                             inst, tldrawReady>>

AtRest == todo = <<>> /\ ~Pending

Mount ==
    /\ phase = "init"
    /\ \E ls \in BOOLEAN :
          /\ (props.status # "loading" => ~ls)
          /\ RenderGate(props, ls)
    /\ UNCHANGED <<renders, given, colorScheme>>

Render ==
    /\ phase = "mounted"
    /\ AtRest
    /\ renders < MaxRenders
    /\ \E g \in NextProps(given), ls \in BOOLEAN :
          /\ (g.status # "loading" => ~ls)
          /\ RenderGate(WithDefaults(g, given, props, renders + 1, FALSE), ls)
          /\ given' = g
    /\ renders' = renders + 1
    /\ UNCHANGED colorScheme

\* The synchronous render after setEditor or after a crash notification.
Rerender ==
    /\ phase = "mounted"
    /\ todo = <<>>
    /\ Pending
    /\ RenderReadyStore(props, <<>>)
    /\ UNCHANGED <<props, phase, gate, editor, owned, outerError, layoutFor,
                   teardown, inst, tldrawReady, trace, lastChanged, wasLive,
                   identityChanges, renders, given,
                   colorScheme, themeClass>>

----------------------------------------------------------------------------
\* The cleanups and layout effects

Step(name) == todo # <<>> /\ Head(todo) = name

NextId == Cardinality({i \in InstanceIds : inst[i].status # "none"}) + 1

\* useLayoutEffect(() => { editorOptionsRef.current = {...} }, [...])
UpdateEditorOptionsRef ==
    /\ Step("UpdateEditorOptionsRef")
    /\ editorOptionsRef' = RefOf(props)
    /\ todo' = Tail(todo)
    /\ UNCHANGED <<props, phase, gate, ready, editor, renderedEditor, owned,
                   crashingError, branch, innerError, outerError, layoutFor,
                   teardown, inst, tldrawReady, trace, lastChanged, wasLive,
                   identityChanges, renders, given,
                   colorScheme, themeClass>>

\* What new Editor({...}) receives: the identity props of the render and
\* the options held by editorOptionsRef.
EditorArgs ==
    [f \in IdentityFields \cup RefFields |->
        IF f \in IdentityFields THEN props[f] ELSE editorOptionsRef[f]]

\* Mutant: the effect catches what the constructor throws and carries on
\* with the editor state it had.
ConstructEditor_SwallowsThrow ==
    /\ Step("ConstructEditor")
    /\ NextId \in InstanceIds
    /\ trace' = Append(trace, Event("construct", NextId, 0))
    /\ \/ /\ inst' = [inst EXCEPT ![NextId] =
                        [NoInstance EXCEPT !.status = "live",
                                           !.args = EditorArgs,
                                           !.cameraOptions = editorOptionsRef.cameraOptions]]
          /\ editor' = NextId
          /\ owned' = NextId
       \/ /\ inst' = [inst EXCEPT ![NextId] = [NoInstance EXCEPT !.status = "threw"]]
          /\ UNCHANGED <<editor, owned>>
    /\ todo' = Tail(todo)
    /\ UNCHANGED <<props, phase, gate, ready, renderedEditor, editorOptionsRef,
                   crashingError, branch, innerError, outerError, layoutFor,
                   teardown, tldrawReady, lastChanged, wasLive,
                   identityChanges, renders, given,
                   colorScheme, themeClass>>

\* const editor = new Editor({...}); setEditor(editor)
\* The constructor returns an instance or throws; a throw in a layout
\* effect reaches the outer error boundary, which deletes the subtree.
ConstructEditor ==
    /\ Step("ConstructEditor")
    /\ NextId \in InstanceIds
    /\ trace' = Append(trace, Event("construct", NextId, 0))
    /\ \/ /\ inst' = [inst EXCEPT ![NextId] =
                        [NoInstance EXCEPT !.status = "live",
                                           !.args = EditorArgs,
                                           !.cameraOptions = editorOptionsRef.cameraOptions]]
          /\ editor' = NextId
          /\ owned' = NextId
          /\ todo' = Tail(todo)
          /\ UNCHANGED <<phase, ready, outerError>>
       \/ \E k \in ConstructionErrors :
          /\ inst' = [inst EXCEPT ![NextId] = [NoInstance EXCEPT !.status = "threw"]]
          /\ outerError' = k
          /\ phase' = "failed"
          /\ ready' = FALSE
          /\ todo' = SelectSeq(Tail(todo), LAMBDA s : s = "ThemeEffect")
                      \o IfStep(layoutFor # 0, "LayoutCleanup")
          /\ UNCHANGED <<editor, owned>>
    /\ UNCHANGED <<props, gate, renderedEditor, editorOptionsRef,
                   crashingError, branch, innerError, layoutFor, teardown,
                   tldrawReady, lastChanged, wasLive, identityChanges, renders, given,
                   colorScheme, themeClass>>

\* return () => { editor.dispose() }
DisposeEditor ==
    /\ Step("DisposeEditor")
    /\ inst' = [inst EXCEPT ![owned].status = "disposed",
                            ![owned].disposes = @ + 1]
    /\ trace' = Append(trace, Event("dispose", owned, 0))
    /\ owned' = 0
    /\ todo' = Tail(todo)
    /\ UNCHANGED <<props, phase, gate, ready, editor, renderedEditor,
                   editorOptionsRef, crashingError, branch, innerError,
                   outerError, layoutFor, teardown, tldrawReady, lastChanged,
                   wasLive, identityChanges, renders, given,
                   colorScheme, themeClass>>

\* Mutant: the effect does not look at cameraOptions.
CameraCall_Always(e, cameraOptions) == e # 0

\* if (editor && cameraOptions) editor.setCameraOptions(cameraOptions)
CameraCall(e, cameraOptions) == e # 0 /\ cameraOptions # 0

SetCameraOptionsEffect ==
    /\ Step("SetCameraOptionsEffect")
    /\ IF CameraCall(renderedEditor, props.cameraOptions)
       THEN /\ inst' = [inst EXCEPT ![renderedEditor].cameraOptions = props.cameraOptions]
            /\ trace' = Append(trace, Event("setCameraOptions", renderedEditor,
                                            props.cameraOptions))
       ELSE UNCHANGED <<inst, trace>>
    /\ todo' = Tail(todo)
    /\ UNCHANGED <<props, phase, gate, ready, editor, renderedEditor, owned,
                   editorOptionsRef, crashingError, branch, innerError,
                   outerError, layoutFor, teardown, tldrawReady, lastChanged,
                   wasLive, identityChanges, renders, given,
                   colorScheme, themeClass>>

\* Mutant: Layout's callback calls the caller's onMount before the store's
\* hook.
MountSequence_CallbackFirst(e, cb) ==
    <<Event("runIgnoreHistory", e, 0)>>
    \o IfStep(cb # 0, Event("onMount", e, cb))
    \o <<Event("onEditorMount", e, 0)>>
    \o <<Event("emitMount", e, 0), Event("runEnd", e, 0),
         Event("tldrawReady", e, 0)>>

\* The calls of one mount sequence for editor e with the onMount prop cb:
\* editor.run(..., { history: 'ignore' }) around the two hooks and the
\* 'mount' event, then the readiness flag.
MountSequence(e, cb) ==
    <<Event("runIgnoreHistory", e, 0)>>
    \o <<Event("onEditorMount", e, 0)>>
    \o IfStep(cb # 0, Event("onMount", e, cb))
    \o <<Event("emitMount", e, 0), Event("runEnd", e, 0),
         Event("tldrawReady", e, 0)>>

\* What the two hooks return: a teardown callback or nothing.  The hook of
\* store 1 and the onMount callback 1 return one, the others return nothing.
Hooks(e, cb) == [store |-> inst[e].args.store = 1, callback |-> cb = 1]

\* useOnMount's layout effect: Layout's callback inside editor.run, then
\* the 'mount' event, then window.tldrawReady.
OnMountEvent ==
    /\ Step("OnMountEvent")
    /\ teardown' = Hooks(renderedEditor, props.onMount)
    /\ trace' = trace \o MountSequence(renderedEditor, props.onMount)
    /\ inst' = [inst EXCEPT ![renderedEditor].mounts = @ + 1]
    /\ layoutFor' = renderedEditor
    /\ tldrawReady' = TRUE
    /\ todo' = Tail(todo)
    /\ UNCHANGED <<props, phase, gate, ready, editor, renderedEditor, owned,
                   editorOptionsRef, crashingError, branch, innerError,
                   outerError, lastChanged, wasLive, identityChanges, renders, given,
                   colorScheme, themeClass>>

\* Mutant: the callbacks are called in the reverse order.
Teardown_Reversed(e, t) ==
    IfStep(t.callback, Event("teardownCallback", e, 0))
    \o IfStep(t.store, Event("teardownStore", e, 0))

\* return () => { teardownStore?.(); teardownCallback?.() }
Teardown(e, t) ==
    IfStep(t.store, Event("teardownStore", e, 0))
    \o IfStep(t.callback, Event("teardownCallback", e, 0))

\* Mutant: the cleanup also takes the readiness flag back.
LayoutCleanup_ClearsReady ==
    /\ Step("LayoutCleanup")
    /\ trace' = trace \o Teardown(layoutFor, teardown)
    /\ inst' = [inst EXCEPT ![layoutFor].teardowns = @ + 1]
    /\ layoutFor' = 0
    /\ teardown' = NoTeardown
    /\ tldrawReady' = FALSE
    /\ todo' = Tail(todo)
    /\ UNCHANGED <<props, phase, gate, ready, editor, renderedEditor, owned,
                   editorOptionsRef, crashingError, branch, innerError,
                   outerError, lastChanged, wasLive, identityChanges, renders, given,
                   colorScheme, themeClass>>

\* The cleanup of useOnMount's layout effect.
LayoutCleanup ==
    /\ Step("LayoutCleanup")
    /\ trace' = trace \o Teardown(layoutFor, teardown)
    /\ inst' = [inst EXCEPT ![layoutFor].teardowns = @ + 1]
    /\ layoutFor' = 0
    /\ teardown' = NoTeardown
    /\ todo' = Tail(todo)
    /\ UNCHANGED <<props, phase, gate, ready, editor, renderedEditor, owned,
                   editorOptionsRef, crashingError, branch, innerError,
                   outerError, tldrawReady, lastChanged, wasLive, identityChanges, renders, given,
                   colorScheme, themeClass>>

\* if (colorScheme === 'dark') { remove 'tl-theme__light'; add 'tl-theme__dark' }
ThemeClassAfter(scheme, class) ==
    IF scheme = "dark" THEN "dark" ELSE class

\* The gate's layout effect: one read of the user's colour scheme.
ThemeEffect ==
    /\ Step("ThemeEffect")
    /\ themeClass' = ThemeClassAfter(colorScheme, themeClass)
    /\ trace' = Append(trace, Event("readColorScheme", 0, 0))
    /\ todo' = Tail(todo)
    /\ UNCHANGED <<props, phase, gate, ready, editor, renderedEditor, owned,
                   editorOptionsRef, crashingError, branch, innerError,
                   outerError, layoutFor, teardown, inst, tldrawReady,
                   lastChanged, wasLive, identityChanges, renders, given,
                   colorScheme>>

----------------------------------------------------------------------------
\* External events

\* The user changes the colour scheme preference.
ChangePreference ==
    /\ phase = "mounted"
    /\ AtRest
    /\ renders < MaxRenders
    /\ renders' = renders + 1
    /\ colorScheme' = IF colorScheme = "dark" THEN "light" ELSE "dark"
    /\ trace' = <<>>
    /\ lastChanged' = {}
    /\ wasLive' = LiveEditor
    /\ UNCHANGED <<props, phase, gate, ready, editor, renderedEditor, owned,
                   editorOptionsRef, crashingError, branch, innerError,
                   outerError, layoutFor, teardown, inst, tldrawReady, todo,
                   identityChanges, given, themeClass>>

\* The engine crashes: its crash accessor returns the error from now on
\* and the 'crash' event asks for a render.
Crash ==
    /\ phase = "mounted"
    /\ AtRest
    /\ LiveEditor # 0
    /\ inst[editor].crashingError = NoError
    /\ \E x \in CrashErrors : inst' = [inst EXCEPT ![editor].crashingError = x]
    /\ trace' = <<>>
    /\ lastChanged' = {}
    /\ wasLive' = LiveEditor
    /\ UNCHANGED <<props, phase, gate, ready, editor, renderedEditor, owned,
                   editorOptionsRef, crashingError, branch, innerError,
                   outerError, layoutFor, teardown, tldrawReady, todo, identityChanges, renders, given,
                   colorScheme, themeClass>>

\* The parent removes the TldrawEditor.
Unmount ==
    /\ phase = "mounted"
    /\ AtRest
    /\ phase' = "unmounted"
    /\ ready' = FALSE
    /\ todo' = DeletionPlan
    /\ trace' = <<>>
    /\ lastChanged' = {}
    /\ wasLive' = LiveEditor
    /\ UNCHANGED <<props, gate, editor, renderedEditor, owned,
                   editorOptionsRef, crashingError, branch, innerError,
                   outerError, layoutFor, teardown, inst, tldrawReady, identityChanges, renders, given,
                   colorScheme, themeClass>>

----------------------------------------------------------------------------

Init ==
    /\ given \in InitialProps
    /\ props = WithDefaults(given, given, given, 0, TRUE)
    /\ colorScheme \in {"light", "dark"}
    /\ themeClass = "light"
    /\ phase = "init"
    /\ gate = [out |-> "none", LoadingScreen |-> FALSE]
    /\ ready = FALSE
    /\ editor = 0
    /\ renderedEditor = 0
    /\ owned = 0
    /\ editorOptionsRef = RefOf(props)
    /\ crashingError = NoError
    /\ branch = "none"
    /\ innerError = NoError
    /\ outerError = NoError
    /\ layoutFor = 0
    /\ teardown = NoTeardown
    /\ inst = [i \in InstanceIds |-> NoInstance]
    /\ tldrawReady = FALSE
    /\ todo = <<>>
    /\ trace = <<>>
    /\ lastChanged = {}
    /\ wasLive = 0
    /\ identityChanges = 0
    /\ renders = 0

Next ==
    \/ Mount
    \/ Render
    \/ Rerender
    \/ UpdateEditorOptionsRef
    \/ ConstructEditor
    \/ DisposeEditor
    \/ SetCameraOptionsEffect
    \/ OnMountEvent
    \/ LayoutCleanup
    \/ ThemeEffect
    \/ ChangePreference
    \/ Crash
    \/ Unmount

Spec == Init /\ [][Next]_vars

----------------------------------------------------------------------------
\* Properties

Constructed == {i \in InstanceIds : inst[i].status \in {"live", "disposed"}}

Live == {i \in InstanceIds : inst[i].status = "live"}

ConstructorCalls == Cardinality({i \in InstanceIds : inst[i].status # "none"})

RECURSIVE Sum(_, _)
Sum(f, S) == IF S = {} THEN 0 ELSE LET x == CHOOSE x \in S : TRUE IN f[x] + Sum(f, S \ {x})

DisposeCalls == Sum([i \in InstanceIds |-> inst[i].disposes], InstanceIds)

\* The external event has been dealt with: nothing is left to commit or render.
CycleDone == todo = <<>> /\ ~Pending

EngineCalls == Filter(trace, {"construct", "dispose"})

\* C1: at most one engine instance is constructed and not yet disposed, and
\* an instance exists only when every instance constructed before it has
\* been disposed.
C1_AtMostOneLiveInstance ==
    /\ Cardinality(Live) <= 1
    /\ \A i \in InstanceIds : \A j \in InstanceIds :
          (j < i /\ inst[i].status # "none") => inst[j].status = "disposed"

\* An identity change has replaced the first instance by a second one.
C1_Witness ==
    /\ inst[1].status = "disposed"
    /\ inst[2].status = "live"
    /\ phase = "mounted"

\* C2: while the controller is mounted, after N renders that changed the
\* identity key the constructor has been called N+1 times and dispose N
\* times; within one render cycle dispose of instance i comes before the
\* construction of instance i+1; no instance is disposed twice and only a
\* constructed instance is disposed.
C2_ConstructDisposePairing ==
    /\ (phase = "mounted" /\ ready /\ CycleDone) =>
          /\ ConstructorCalls = identityChanges + 1
          /\ DisposeCalls = identityChanges
    /\ \A i \in InstanceIds :
          /\ inst[i].disposes <= 1
          /\ inst[i].disposes = 1 <=> inst[i].status = "disposed"
    /\ \A m \in 1..Len(trace) : \A n \in 1..Len(trace) :
          (trace[m][1] = "dispose" /\ trace[n][1] = "construct"
             /\ trace[n][2] = trace[m][2] + 1) => m < n

\* Two identity changes have been rendered and committed.
C2_Witness ==
    /\ phase = "mounted" /\ ready /\ CycleDone
    /\ identityChanges = 2
    /\ inst[3].status = "live"

\* C3: once an instance exists, a render that changes only autoFocus,
\* inferDarkMode or initialState disposes and constructs nothing, and a
\* render that changes a prop of the identity key disposes the current
\* instance once and then calls the constructor once.
C3_RecreationOnlyOnIdentityChange ==
    (CycleDone /\ wasLive # 0 /\ lastChanged # {}) =>
        /\ lastChanged \subseteq OneShotFields => EngineCalls = <<>>
        /\ lastChanged \cap IdentityFields # {} =>
              /\ Len(EngineCalls) = 2
              /\ EngineCalls[1] = Event("dispose", wasLive, 0)
              /\ EngineCalls[2][1] = "construct"

\* A render that changed only licenseKey has recreated the editor.
C3_Witness ==
    /\ CycleDone /\ wasLive # 0
    /\ lastChanged = {"licenseKey"}
    /\ Len(EngineCalls) = 2
    /\ phase = "mounted"

CameraCalls == Filter(trace, {"setCameraOptions"})

\* C4 as stated: whenever cameraOptions alone changes while an instance is
\* live, also to undefined, setCameraOptions is called on that instance,
\* and the change constructs and disposes nothing.
C4_Original ==
    (CycleDone /\ wasLive # 0 /\ lastChanged = {"cameraOptions"}) =>
        /\ \E n \in 1..Len(trace) :
              trace[n][1] = "setCameraOptions" /\ trace[n][2] = wasLive
        /\ EngineCalls = <<>>

\* C4 amended: when cameraOptions alone changes while an instance is live,
\* a change to a defined value calls setCameraOptions once, on that instance
\* and with the new value, a change to undefined calls nothing, and the
\* change constructs and disposes nothing.
C4_CameraOptionsLiveUpdate ==
    (CycleDone /\ wasLive # 0 /\ lastChanged = {"cameraOptions"}) =>
        /\ EngineCalls = <<>>
        /\ inst[wasLive].status = "live"
        /\ trace = IF props.cameraOptions = 0 THEN <<>>
                   ELSE <<Event("setCameraOptions", wasLive, props.cameraOptions)>>

\* cameraOptions alone has changed from one value to another on a live
\* instance, and the instance has taken the new value.
C4_Witness ==
    /\ CycleDone /\ wasLive # 0
    /\ lastChanged = {"cameraOptions"}
    /\ props.cameraOptions = 2
    /\ inst[wasLive].status = "live"
    /\ inst[wasLive].cameraOptions = 2

Crashed(i) == inst[i].crashingError # NoError

\* C5 as stated: the mount sequence runs exactly once for every constructed
\* instance.
C5_Original ==
    CycleDone => \A i \in Constructed : inst[i].mounts = 1

\* C5 amended: the mount sequence runs at most once for every constructed
\* instance, whatever is rendered afterwards, and exactly once unless an
\* instance constructed earlier has crashed: then the inner error boundary
\* keeps its fallback and the instance is never mounted.
C5_MountSequenceOncePerInstance ==
    /\ \A i \in InstanceIds : inst[i].mounts <= 1
    /\ CycleDone =>
          \A i \in Constructed :
             inst[i].mounts = IF \E j \in InstanceIds : j < i /\ Crashed(j)
                              THEN 0 ELSE 1

\* A render has passed a different onMount callback to a mounted instance.
C5_Witness ==
    /\ CycleDone /\ wasLive # 0
    /\ lastChanged = {"onMount"}
    /\ props.onMount # 0
    /\ inst[wasLive].mounts = 1
    /\ layoutFor = wasLive

TeardownOrder(first, second) ==
    \A m \in 1..Len(trace) : \A n \in 1..Len(trace) :
        (trace[m][1] = first /\ trace[n][1] = second /\ trace[m][2] = trace[n][2])
            => m < n

\* C6 as stated: the teardown of the caller's onMount is invoked before the
\* teardown of the store's onEditorMount.
C6_Original == TeardownOrder("teardownCallback", "teardownStore")

\* C6 amended: the teardown callbacks are invoked in the order in which the
\* hooks were run: the teardown of the store's onEditorMount first, then
\* the teardown of the caller's onMount.
C6_TeardownInRegistrationOrder == TeardownOrder("teardownStore", "teardownCallback")

\* A teardown has invoked both callbacks of one instance.
C6_Witness ==
    \E i \in InstanceIds :
        /\ Positions(trace, "teardownStore", i) # {}
        /\ Positions(trace, "teardownCallback", i) # {}

TeardownPending(i) == layoutFor = i /\ (teardown.store \/ teardown.callback)

\* C7: the teardown callbacks of an instance have been invoked when the
\* instance is disposed and when the next instance is constructed.
C7_TeardownNoLaterThanDispose ==
    \A i \in InstanceIds :
        TeardownPending(i) =>
            /\ inst[i].status # "disposed"
            /\ \A j \in InstanceIds : j > i => inst[j].status = "none"

\* C8: while the gate is mounted the controller exists exactly when the
\* status is not-synced, synced-local or synced-remote; while the status is
\* loading the gate renders the LoadingScreen if there is one and nothing
\* otherwise, and the constructor has not been called.
C8_ReadySubtreeIffReadyStatus ==
    /\ ready => props.status \in ReadyStatuses
    /\ (phase = "mounted" /\ props.status \in ReadyStatuses) => ready /\ gate.out = "ready"
    /\ (phase = "mounted" /\ props.status = "loading") =>
          /\ ~ready
          /\ gate.out = IF gate.LoadingScreen THEN "placeholder" ELSE "nothing"
          /\ ConstructorCalls = 0

\* The store has gone from loading to a ready status and the first
\* instance has been constructed.
C8_Witness ==
    /\ "status" \in lastChanged
    /\ ready /\ CycleDone
    /\ inst[1].status = "live"

\* C9: when the status is error the outer boundary holds the store's error
\* itself, the gate stays failed, and the render constructs nothing.
C9_StoreErrorReachesBoundary ==
    (phase # "init" /\ props.status = "error") =>
        /\ phase = "failed"
        /\ gate.out = "throw"
        /\ outerError = props.error
        /\ ~ready
        /\ \A n \in 1..Len(trace) : trace[n][1] # "construct"

\* A ready store with a live instance has gone to error E2.
C9_Witness ==
    /\ props.status = "error"
    /\ props.error = "E2"
    /\ wasLive # 0
    /\ todo = <<>>

\* C10: once a render has seen the crash of the current instance, every
\* state in which that instance is still the rendered one has the crash
\* path rendered, and after every completed render cycle a crashed current
\* instance has the crash path rendered, the inner boundary holding an
\* error and no Layout mounted.
C10_CrashLatched ==
    /\ [](( CycleDone /\ ready /\ editor # 0 /\ Crashed(editor)) =>
            /\ branch = "crash"
            /\ crashingError = inst[editor].crashingError
            /\ innerError # NoError
            /\ layoutFor = 0)
    /\ [][(ready /\ branch = "crash" /\ ready' /\ renderedEditor' = renderedEditor)
             => branch' = "crash" /\ crashingError' = crashingError]_vars

\* After a crash, a render has changed a prop outside the identity key and
\* the crash path is still rendered.
C10_Witness ==
    /\ CycleDone /\ ready
    /\ editor # 0 /\ Crashed(editor)
    /\ lastChanged # {} /\ lastChanged \cap IdentityFields = {}
    /\ branch = "crash"

\* C11: once the unmount of the TldrawEditor has been carried out, in
\* whatever state it was asked for (still loading, live, crashed, or with a
\* replaced instance), no constructed instance is left undisposed, every
\* instance has been disposed exactly once, and no teardown callback of a
\* mount sequence is left pending.
C11_UnmountReleasesEverything ==
    (phase = "unmounted" /\ todo = <<>>) =>
        /\ Live = {}
        /\ owned = 0
        /\ layoutFor = 0
        /\ \A i \in Constructed :
              /\ inst[i].disposes = 1
              /\ inst[i].teardowns = inst[i].mounts

\* The unmount of a crashed controller whose instance was replaced before:
\* the unmount has disposed the second instance.
C11_Witness ==
    /\ phase = "unmounted"
    /\ todo = <<>>
    /\ inst[1].status = "disposed"
    /\ inst[2].status = "disposed"
    /\ inst[2].crashingError # NoError
    /\ Positions(trace, "dispose", 2) # {}

\* The instance the mounted controller holds in its editor state and hands
\* to its subtree; an unmounted controller holds nothing.
HeldEditor == IF ready THEN editor ELSE 0

Threw == {i \in InstanceIds : inst[i].status = "threw"}

C12_WitnessFirstMount ==
    /\ inst[1].status = "threw"
    /\ todo = <<>>

\* C13 as stated: after a crash no instance is constructed any more.
C13_Original ==
    \A i \in InstanceIds : \A j \in InstanceIds :
        (Crashed(i) /\ i < j) => inst[j].status = "none"

\* C13 amended: a crash is final for the rendered subtree only.  Once the
\* crash path has been rendered the inner boundary keeps its error, Layout
\* is never mounted again and no mount sequence runs; the controller stays
\* mounted, and a render that changes the identity key still disposes the
\* crashed instance and constructs a new one.
C13_CrashFinalForSubtreeOnly ==
    /\ [][innerError # NoError =>
             /\ innerError' = innerError
             /\ layoutFor' \in {layoutFor, 0}
             /\ \A i \in InstanceIds : inst'[i].mounts = inst[i].mounts]_vars
    /\ []((CycleDone /\ wasLive # 0 /\ Crashed(wasLive)
              /\ lastChanged \cap IdentityFields # {}) =>
            /\ Len(EngineCalls) = 2
            /\ EngineCalls[1] = Event("dispose", wasLive, 0)
            /\ EngineCalls[2] = Event("construct", wasLive + 1, 0))

\* After a crash an identity change has constructed a second instance,
\* which is live and was never mounted.
C13_Witness ==
    /\ CycleDone /\ phase = "mounted"
    /\ innerError # NoError
    /\ Crashed(1) /\ inst[1].status = "disposed"
    /\ inst[2].status = "live" /\ inst[2].mounts = 0
    /\ layoutFor = 0

MountSequences == Sum([i \in InstanceIds |-> inst[i].mounts], InstanceIds)

\* C14: window.tldrawReady is true exactly when a mount sequence has been
\* completed, and no step sets it back: not a disposal, a replacement, a
\* crash, a failed construction or the unmount.
C14_ReadyFlagMonotone ==
    /\ [](tldrawReady <=> MountSequences > 0)
    /\ [][tldrawReady => tldrawReady']_vars

\* The flag is still set after the only mounted instance has crashed, has
\* been replaced and the editor has been unmounted.
C14_Witness ==
    /\ tldrawReady
    /\ phase = "unmounted" /\ todo = <<>>
    /\ Crashed(1)
    /\ inst[2].status = "disposed"

\* C15: an instance constructed in the current render cycle has received
\* the autoFocus, inferDarkMode and initialState of the render of that
\* cycle, also when the render changed one of them together with the
\* identity key.
C15_ConstructionTakesLatestOptions ==
    \A i \in Constructed :
        Positions(trace, "construct", i) # {} =>
            \A f \in OneShotFields : inst[i].args[f] = props[f]

\* A render has changed the store and autoFocus together, and the second
\* instance has been constructed with the new autoFocus.
C15_Witness ==
    /\ CycleDone
    /\ lastChanged = {"store", "autoFocus"}
    /\ inst[1].status = "disposed"
    /\ inst[2].status = "live"
    /\ Positions(trace, "construct", 2) # {}
    /\ inst[2].args.autoFocus = props.autoFocus
    /\ inst[1].args.autoFocus # props.autoFocus

\* C17: setCameraOptions is never called on an instance after the dispose
\* of that instance, and only on a constructed instance.
C17_CameraCallOnLiveInstanceOnly ==
    \A n \in 1..Len(trace) :
        trace[n][1] = "setCameraOptions" =>
            /\ inst[trace[n][2]].status \in {"live", "disposed"}
            /\ \A m \in 1..n : trace[m] # Event("dispose", trace[n][2], 0)

\* The teardown callbacks of the mount sequence of instance i are still to
\* be run by the cleanup of Layout's effect.
TeardownOwed(i) == IF layoutFor = i THEN 1 ELSE 0

\* C19: the teardown callbacks of a mount sequence run exactly once: in
\* every state an instance has had as many teardowns as mount sequences,
\* less the one Layout still owes; and when the crash of a mounted instance
\* has been rendered, its teardown callbacks have run in that render cycle,
\* the instance being still undisposed, so that a later replacement or
\* unmount runs none for it.
C19_TeardownOncePerMountSequence ==
    /\ \A i \in InstanceIds :
          inst[i].teardowns + TeardownOwed(i) = inst[i].mounts
    /\ \A i \in InstanceIds :
          (CycleDone /\ ready /\ editor = i /\ Crashed(i) /\ inst[i].mounts = 1) =>
              /\ inst[i].teardowns = 1
              /\ layoutFor = 0
    /\ (CycleDone /\ phase = "mounted" /\ wasLive # 0 /\ Crashed(wasLive)
           /\ lastChanged = {} /\ trace # <<>>) =>
              /\ inst[wasLive].status = "live"
              /\ EngineCalls = <<>>
              /\ \A n \in 1..Len(trace) :
                    trace[n][1] \in {"teardownStore", "teardownCallback"}
                       /\ trace[n][2] = wasLive

\* A mounted instance has crashed, its teardown callbacks have run at the
\* switch to the crash path, and the unmount that followed has run none.
C19_Witness ==
    /\ phase = "unmounted" /\ todo = <<>>
    /\ Crashed(1)
    /\ inst[1].mounts = 1 /\ inst[1].teardowns = 1
    /\ inst[1].status = "disposed"
    /\ trace = <<Event("dispose", 1, 0)>>
    /\ inst[1].args.store = 1

\* Every call of kind first for an instance comes before every call of kind
\* second for the same instance in the current render cycle.
Before(first, second) == TeardownOrder(first, second)

\* C16: within a mount sequence the store's onEditorMount hook is called
\* first, then the caller's onMount if there is one, then the 'mount'
\* event is emitted, then window.tldrawReady is set; the two hooks are
\* called between the beginning and the end of the engine's run scope
\* with history 'ignore', and the flag is set after that scope.
C16_MountSequenceOrder ==
    /\ Before("onEditorMount", "onMount")
    /\ Before("onEditorMount", "emitMount")
    /\ Before("onMount", "emitMount")
    /\ Before("emitMount", "tldrawReady")
    /\ Before("runIgnoreHistory", "onEditorMount")
    /\ Before("runIgnoreHistory", "onMount")
    /\ Before("onEditorMount", "runEnd")
    /\ Before("onMount", "runEnd")
    /\ Before("runEnd", "tldrawReady")
    /\ \A i \in InstanceIds :
          Positions(trace, "tldrawReady", i) # {} =>
              /\ \A k \in {"runIgnoreHistory", "onEditorMount", "emitMount", "runEnd"} :
                    Cardinality(Positions(trace, k, i)) = 1
              /\ Cardinality(Positions(trace, "onMount", i))
                    = IF props.onMount = 0 THEN 0 ELSE 1

\* A mount sequence with a caller's onMount has run for the first instance.
C16_Witness ==
    /\ CycleDone
    /\ Positions(trace, "onMount", 1) # {}
    /\ Positions(trace, "onEditorMount", 1) # {}
    /\ Positions(trace, "tldrawReady", 1) # {}
    /\ tldrawReady
    /\ layoutFor = 1

ThemeReads == Positions(trace, "readColorScheme", 0)

\* C18 as stated: while the store is still loading the theme class has not
\* been applied and the colour scheme preference has not been read.
C18_Original ==
    (phase = "mounted" /\ props.status = "loading") =>
        /\ themeClass = "light"
        /\ ThemeReads = {}

\* C18 amended: the gate's effect applies the theme class in the commit that
\* mounts the gate, whatever the status of the store, and again exactly
\* when a render changes the container or the user; it does not run when
\* the store becomes ready.  Each run reads the preference once and can
\* only turn the class from light to dark; a change of the preference
\* alone schedules nothing and leaves the class as it is.
C18_ThemeAppliedAtGateMount ==
    /\ [][(phase = "init" /\ phase' = "mounted") =>
             (todo' # <<>> /\ todo'[Len(todo')] = "ThemeEffect")]_vars
    /\ [][(phase = "mounted" /\ phase' = "mounted" /\ props' # props) =>
             ((\E n \in 1..Len(todo') : todo'[n] = "ThemeEffect")
                 <=> (props'.container # props.container \/ props'.user # props.user))]_vars
    /\ [][themeClass' # themeClass =>
             \/ /\ Step("ThemeEffect")
                /\ colorScheme = "dark"
                /\ themeClass' = "dark"
             \/ /\ props'.container # props.container
                /\ themeClass' = "light"]_vars
    /\ [][colorScheme' # colorScheme =>
             (themeClass' = themeClass /\ todo' = todo /\ props' = props)]_vars
    /\ [](Cardinality(ThemeReads) <= 1)
    /\ []((CycleDone /\ phase = "mounted" /\ ThemeReads # {} /\ colorScheme = "dark")
             => themeClass = "dark")

\* The dark class has been applied while the store is still loading.
C18_Witness ==
    /\ CycleDone /\ phase = "mounted"
    /\ props.status = "loading"
    /\ themeClass = "dark"
    /\ ThemeReads # {}

\* The store has become ready after the preference turned dark during the
\* loading, and the class is still light.
C18_WitnessNotAppliedWhenReady ==
    /\ CycleDone /\ phase = "mounted"
    /\ props.status \in ReadyStatuses
    /\ lastChanged = {"status"}
    /\ colorScheme = "dark"
    /\ themeClass = "light"

\* C20: a caller that leaves out shapeUtils, bindingUtils and tools gets the
\* same three arrays in every render, and across a render in which the
\* caller leaves out these three and user, before and after, and changes no
\* other prop of the identity key, the four props passed down keep their
\* references and the commit neither disposes nor constructs an instance.
C20_StableDefaults ==
    /\ []((given.shapeUtils = 0 => props.shapeUtils = EMPTY_SHAPE_UTILS_ARRAY)
          /\ (given.bindingUtils = 0 => props.bindingUtils = EMPTY_BINDING_UTILS_ARRAY)
          /\ (given.tools = 0 => props.tools = EMPTY_TOOLS_ARRAY))
    /\ [][(/\ phase = "mounted" /\ ready /\ ready'
           /\ given' # given
           /\ \A f \in DefaultedFields : given[f] = 0 /\ given'[f] = 0
           /\ \A f \in IdentityFields : given'[f] = given[f]) =>
             /\ \A f \in DefaultedFields : props'[f] = props[f]
             /\ \A n \in 1..Len(todo') :
                   todo'[n] \notin {"DisposeEditor", "ConstructEditor"}]_vars

\* Two renders with other children and another onMount, the four props
\* left out all along: the instance of the first commit is still the one.
C20_Witness ==
    /\ CycleDone /\ phase = "mounted"
    /\ \A f \in DefaultedFields : given[f] = 0
    /\ given.children = 2
    /\ given.onMount # 1
    /\ lastChanged # {}
    /\ ConstructorCalls = 1
    /\ DisposeCalls = 0
    /\ inst[1].status = "live"
    /\ \A f \in DefaultedFields : inst[1].args[f] = props[f]

====
